---- MODULE Spec2Model ----
(***************************************************************************)
(* Celerix Depot: the file registry and the persona directory              *)
(* (backend/internal/db/db.go) and the HTTP handlers that drive them       *)
(* (internal/api), over the partitioned key-value store CelerixStore.      *)
(*                                                                         *)
(* Three specifications:                                                   *)
(*   SpecDb    the db package called directly (SaveFileRecord,             *)
(*             UpdateFileRecord, DeleteFileRecord), one store call a step; *)
(*   Spec      the HTTP handlers, run by concurrent request goroutines,    *)
(*             one store call a step;                                      *)
(*   SpecList  db.ListFiles as a function of the registry and its options. *)
(***************************************************************************)
EXTENDS Integers, Sequences, FiniteSets, TLC

VARIABLES
    files,    \* files[p]: partition p's keys "file:"+id -> FileRecord
    clients,  \* the system partition's keys "client:"+id -> ClientRecord
    blobs,    \* the stored paths present in the storage directory
    issued,   \* how many file ids UploadFile has generated (also its clock)
    pc,       \* pc[p]: where request goroutine p stands
    req,      \* req[p]: the call or request p is serving
    loc,      \* loc[p]: its local variables
    resp,     \* what the call that ended last returned, and to whom
    calls,    \* how many more calls or requests will be taken up
    adminSecret  \* Handler.AdminSecret, the configured administrator secret

vars == <<files, clients, blobs, issued, pc, req, loc, resp, calls, adminSecret>>

(***************************************************************************)
(* Bounds of the model.                                                    *)
(***************************************************************************)
\* file ids ever handed out (uuid.New() in UploadFile)
MaxFiles == 2
\* direct calls of the db functions in one behaviour of SpecDb
MaxCalls == 3
\* HTTP requests in one behaviour of Spec
MaxRequests == 2
\* width of the model's machine integers (Go's int is 64 bits wide)
IntBits == 5
\* records in the registry of SpecList
MaxListed == 3

(***************************************************************************)
(* Program constants (db.go, const block).                                 *)
(***************************************************************************)
SystemPersona == "_system"

\* the default page size of the ListFiles handler
DefaultLimit == 8

\* the request goroutines
Procs == {1, 2}
FileIds == 1..MaxFiles
\* persona ids a caller may send as X-Client-ID, besides the empty header
PersonaIds == {"a", "b", "c"}
Callers == PersonaIds \cup {""}
\* the personas that upload and are given files
Owners == {"a", "b"}
Partitions == PersonaIds \cup {SystemPersona}

\* file names are sequences of characters
Names == {<<"R", "p">>, <<"i", "n">>}
NoName == <<>>

(***************************************************************************)
(* Records.                                                                *)
(***************************************************************************)
FileRecord(id, name, time, owner) ==
    [ID |-> id, OriginalName |-> name, StoredPath |-> id,
     UploadTime |-> time, OwnerID |-> owner]

NoFile == FileRecord(0, NoName, 0, "")

ClientRecord(id, name, code, active, admin) ==
    [ID |-> id, Name |-> name, RecoveryCode |-> code,
     LastActive |-> active, IsAdmin |-> admin]

Bound(owner) == IF owner = "" THEN SystemPersona ELSE owner

(***************************************************************************)
(* CelerixStore: the partitioned registry.  A partition's namespace is a   *)
(* map from key to value; the keys "file:"+id are the map files[p], the    *)
(* keys "client:"+id of the system partition are the map clients.          *)
(***************************************************************************)
MapSet(m, k, v) == [x \in DOMAIN m \cup {k} |-> IF x = k THEN v ELSE m[x]]
MapDel(m, k) == [x \in DOMAIN m \ {k} |-> m[x]]
EmptyMap == [x \in {} |-> NoFile]

StoreHas(st, p, id) == id \in DOMAIN st[p]
StoreSet(st, p, id, val) == [st EXCEPT ![p] = MapSet(st[p], id, val)]
StoreDelete(st, p, id) == [st EXCEPT ![p] = MapDel(st[p], id)]
StoreMove(st, src, dst, id) ==
    [st EXCEPT ![dst] = MapSet(st[dst], id, st[src][id]),
               ![src] = MapDel(st[src], id)]
\* the partitions GetGlobal may answer for a key
GetGlobal(st, id) == {p \in Partitions : StoreHas(st, p, id)}

\* a store call either completes or fails with an I/O error
IOOutcomes == {"ok", "ioerr"}


(***************************************************************************)
(* Requests, locals and results.                                           *)
(***************************************************************************)
Request(kind, caller, id, name, owner) ==
    [kind |-> kind, caller |-> caller, id |-> id, name |-> name, owner |-> owner]

NoRequest == Request("none", "", 0, NoName, "")

\* PUT /clients/:id with its JSON body
ClientRequest(kind, caller, id, name, code, isAdmin) ==
    [kind |-> kind, caller |-> caller, id |-> id, name |-> name,
     code |-> code, isAdmin |-> isAdmin]

\* rec: the record read; persona: the partition computed from it; adm: what
\* isAdmin answered
Locals(rec, persona, adm) == [rec |-> rec, persona |-> persona, adm |-> adm]

NoLocals == Locals(NoFile, "", FALSE)

ClientLocals(client) == [client |-> client]

\* a /persona request: id is the derived id of a name save
PersonaRequest(kind, caller, id, name, code, secret) ==
    [kind |-> kind, caller |-> caller, id |-> id, name |-> name,
     code |-> code, secret |-> secret]

\* the JSON body of a /persona answer: persona, id, name, recovery_code
Persona(persona, id, name, code) ==
    [persona |-> persona, id |-> id, name |-> name, recovery_code |-> code]

NoPersona == Persona("", "", "", "")

\* err: the error a db function returned (FALSE is nil); status: the HTTP
\* status of a handler (0 for a direct db call); arg: the /persona request
\* answered; body: its JSON body
Result(kind, err, status) ==
    [kind |-> kind, caller |-> "", err |-> err, status |-> status,
     rec |-> NoFile, files |-> <<>>, total |-> 0, panic |-> FALSE,
     arg |-> NoRequest, body |-> NoPersona]

NoResult == Result("none", FALSE, 0)

\* a handler's answer to caller: a status and, with 200, a body
Status(kind, caller, status) ==
    [Result(kind, status >= 500, status) EXCEPT !.caller = caller]

DbKinds == {"SaveFileRecord", "UpdateFileRecord", "DeleteFileRecord"}

\* what the caller of a db function makes of its error: a direct caller gets
\* the error, the handlers answer 500 or 200
Returned(kind, err) ==
    IF kind \in DbKinds
    THEN Result(kind, err, 0)
    ELSE Result(kind, err, IF err THEN 500 ELSE 200)

\* idle goroutines are alike: the first idle one takes the next request
Free(p) == pc[p] = "idle" /\ \A q \in Procs : q < p => pc[q] # "idle"

\* the call of goroutine p ends with result r
Reply(p, r) ==
    /\ resp' = r
    /\ pc' = [pc EXCEPT ![p] = "idle"]
    /\ req' = [req EXCEPT ![p] = NoRequest]
    /\ loc' = [loc EXCEPT ![p] = NoLocals]
    /\ calls' = calls

Return(p, err) ==
    Reply(p, [Returned(req[p].kind, err) EXCEPT !.caller = req[p].caller])

\* goroutine p takes up a request and answers it in the same step
Answer(p, r) ==
    /\ Free(p)
    /\ calls > 0
    /\ calls' = calls - 1
    /\ resp' = r
    /\ UNCHANGED <<pc, req, loc>>

\* goroutine p takes up the request r and goes to label
Begin(p, r, locals, label) ==
    /\ Free(p)
    /\ calls > 0
    /\ calls' = calls - 1
    /\ req' = [req EXCEPT ![p] = r]
    /\ loc' = [loc EXCEPT ![p] = locals]
    /\ pc' = [pc EXCEPT ![p] = label]
    /\ resp' = resp

Goto(p, label) == pc' = [pc EXCEPT ![p] = label]

(***************************************************************************)
(* db.SaveFileRecord: one Set into the owner's partition.                  *)
(***************************************************************************)
\* a faulty SaveFileRecord that forgets the owner's persona and Sets every
\* record into the system partition
SaveFileRecordSystem(p, io) ==
    LET record == loc[p].rec
        persona == SystemPersona
    IN
    /\ pc[p] = "save_set"
    /\ IF io = "ok"
       THEN files' = StoreSet(files, persona, record.ID, record)
       ELSE files' = files
    /\ Return(p, io # "ok")
    /\ UNCHANGED <<clients, blobs, issued, adminSecret>>

SaveFileRecord(p, io) ==
    LET record == loc[p].rec
        persona == Bound(record.OwnerID)
    IN
    /\ pc[p] = "save_set"
    /\ IF io = "ok"
       THEN files' = StoreSet(files, persona, record.ID, record)
       ELSE files' = files
    /\ Return(p, io # "ok")
    /\ UNCHANGED <<clients, blobs, issued, adminSecret>>

(***************************************************************************)
(* db.GetFileRecord: GetGlobal, then Get from the partition it names.      *)
(* The records it may return; the empty set is an error.                   *)
(***************************************************************************)
GetFileRecord(st, id, io) ==
    IF io = "ok" THEN {st[q][id] : q \in GetGlobal(st, id)} ELSE {}

(***************************************************************************)
(* db.UpdateFileRecord: GetFileRecord; Move when the partition changes;    *)
(* Set of the updated record into the new partition.                       *)
(***************************************************************************)
UpdateGet(p, io) ==
    LET id == req[p].id
        name == req[p].name
        ownerID == req[p].owner
        found == GetFileRecord(files, id, io)
    IN
    /\ pc[p] = "update_get"
    /\ IF found = {}
       THEN Return(p, TRUE)
       ELSE \E record \in found :
              LET oldPersona == Bound(record.OwnerID)
                  newPersona == Bound(ownerID)
                  updated == [record EXCEPT !.OriginalName = name,
                                            !.OwnerID = ownerID]
              IN /\ loc' = [loc EXCEPT ![p] = Locals(updated, oldPersona, FALSE)]
                 /\ Goto(p, IF oldPersona # newPersona
                            THEN "update_move" ELSE "update_set")
                 /\ UNCHANGED <<req, resp, calls>>
    /\ UNCHANGED <<files, clients, blobs, issued, adminSecret>>

UpdateMove(p, io) ==
    LET id == loc[p].rec.ID
        oldPersona == loc[p].persona
        newPersona == Bound(loc[p].rec.OwnerID)
    IN
    /\ pc[p] = "update_move"
    /\ IF io = "ok" /\ StoreHas(files, oldPersona, id)
       THEN /\ files' = StoreMove(files, oldPersona, newPersona, id)
            /\ Goto(p, "update_set")
            /\ UNCHANGED <<req, loc, resp, calls>>
       ELSE /\ files' = files
            /\ Return(p, TRUE)
    /\ UNCHANGED <<clients, blobs, issued, adminSecret>>

UpdateSet(p, io) ==
    LET record == loc[p].rec
        newPersona == Bound(record.OwnerID)
    IN
    /\ pc[p] = "update_set"
    /\ IF io = "ok"
       THEN files' = StoreSet(files, newPersona, record.ID, record)
       ELSE files' = files
    /\ Return(p, io # "ok")
    /\ UNCHANGED <<clients, blobs, issued, adminSecret>>

(***************************************************************************)
(* db.DeleteFileRecord: GetFileRecord, then Delete from the partition the  *)
(* record's OwnerID names.                                                 *)
(***************************************************************************)
DeleteGet(p, io) ==
    LET found == GetFileRecord(files, req[p].id, io) IN
    /\ pc[p] = "delete_get"
    /\ IF found = {}
       THEN Return(p, TRUE)
       ELSE \E record \in found :
              /\ loc' = [loc EXCEPT ![p] =
                           Locals(record, Bound(record.OwnerID), loc[p].adm)]
              /\ Goto(p, "delete_delete")
              /\ UNCHANGED <<req, resp, calls>>
    /\ UNCHANGED <<files, clients, blobs, issued, adminSecret>>

DeleteDelete(p, io) ==
    LET id == loc[p].rec.ID
        persona == loc[p].persona
        done == io = "ok" /\ StoreHas(files, persona, id)
    IN
    /\ pc[p] = "delete_delete"
    /\ IF done
       THEN files' = StoreDelete(files, persona, id)
       ELSE files' = files
    /\ Return(p, ~done)
    /\ UNCHANGED <<clients, blobs, issued, adminSecret>>

(***************************************************************************)
(* Go's int: sums wrap around (two's complement).                          *)
(***************************************************************************)
MinInt == -(2 ^ (IntBits - 1))
MaxInt == 2 ^ (IntBits - 1) - 1
Wrap(x) == ((x - MinInt) % (2 ^ IntBits)) + MinInt

(***************************************************************************)
(* strings.ToLower and strings.Contains on names.                          *)
(***************************************************************************)
ToLowerChar(ch) ==
    CASE ch = "R" -> "r"
      [] ch = "P" -> "p"
      [] ch = "I" -> "i"
      [] ch = "N" -> "n"
      [] OTHER -> ch

ToLower(str) == [i \in 1..Len(str) |-> ToLowerChar(str[i])]

Contains(str, substr) ==
    \E i \in 0..(Len(str) - Len(substr)) :
        SubSeq(str, i + 1, i + Len(substr)) = substr

(***************************************************************************)
(* db.ListFiles.                                                           *)
(***************************************************************************)
ListFilesOptions(search, ownerID, limit, offset) ==
    [Search |-> search, OwnerID |-> ownerID, Limit |-> limit, Offset |-> offset]

\* what ListFiles returns: an error, a panic (slice bounds out of range), or
\* a FileListResponse
FileListResponse(err, panic, fileList, total) ==
    [err |-> err, panic |-> panic, Files |-> fileList, Total |-> total]

\* the keys "file:"+id of partition q with their values
Entries(st, q) == {[part |-> q, rec |-> st[q][id]] : id \in DOMAIN st[q]}

\* allRecords: one partition's GetAppStore (its error is dropped), or the
\* DumpApp of all of them; a key whose getRecord fails (lost) is skipped
AllRecords(st, opts, io, lost) ==
    LET listed == IF opts.OwnerID # ""
                  THEN IF io = "ok" /\ opts.OwnerID \in Partitions
                       THEN Entries(st, opts.OwnerID) ELSE {}
                  ELSE UNION {Entries(st, q) : q \in Partitions}
    IN {e \in listed : e.rec.ID \notin lost}

Matches(r, search) ==
    search = <<>> \/ Contains(ToLower(r.OriginalName), ToLower(search))

Filtered(st, opts, io, lost) ==
    {e \in AllRecords(st, opts, io, lost) : Matches(e.rec, opts.Search)}

\* sort.Slice by UploadTime descending: every order of the entries that is
\* non-increasing in UploadTime (the slice is built in map order and the
\* sort is not stable)
RECURSIVE SortedDesc(_)
SortedDesc(S) ==
    IF S = {} THEN {<<>>}
    ELSE UNION {{<<e.rec>> \o rest : rest \in SortedDesc(S \ {e})} :
                  e \in {x \in S : \A y \in S : x.rec.UploadTime >= y.rec.UploadTime}}

PageStart(opts, total) == IF opts.Offset > total THEN total ELSE opts.Offset

PageEnd(opts, total) ==
    LET end == Wrap(PageStart(opts, total) + opts.Limit) IN
    IF opts.Limit <= 0 \/ end > total THEN total ELSE end

ListFiles(st, opts, io, lost) ==
    IF opts.OwnerID = "" /\ io # "ok"
    THEN {FileListResponse(TRUE, FALSE, <<>>, 0)}
    ELSE LET filtered == Filtered(st, opts, io, lost)
             total == Cardinality(filtered)
             start == PageStart(opts, total)
             end == PageEnd(opts, total)
         IN IF 0 <= start /\ start <= end /\ end <= total
            THEN {FileListResponse(FALSE, FALSE, SubSeq(sorted, start + 1, end), total) :
                    sorted \in SortedDesc(filtered)}
            ELSE {FileListResponse(FALSE, TRUE, <<>>, 0)}

(***************************************************************************)
(* SpecDb: the db package's file functions called directly, by concurrent  *)
(* callers, with any record and any arguments.                             *)
(***************************************************************************)
DbOwners == {"", "a", "b"}

\* the file names and upload times a direct caller passes
DbTimes == {1}

CallSaveFileRecord(p) ==
    /\ Free(p)
    /\ \E id \in FileIds, name \in Names, t \in DbTimes, owner \in DbOwners :
         Begin(p, Request("SaveFileRecord", "", id, name, owner),
               Locals(FileRecord(id, name, t, owner), "", FALSE), "save_set")
    /\ UNCHANGED <<files, clients, blobs, issued, adminSecret>>

CallUpdateFileRecord(p) ==
    /\ Free(p)
    /\ \E id \in FileIds, name \in Names, owner \in DbOwners :
         Begin(p, Request("UpdateFileRecord", "", id, name, owner),
               NoLocals, "update_get")
    /\ UNCHANGED <<files, clients, blobs, issued, adminSecret>>

CallDeleteFileRecord(p) ==
    /\ Free(p)
    /\ \E id \in FileIds :
         Begin(p, Request("DeleteFileRecord", "", id, NoName, ""),
               NoLocals, "delete_get")
    /\ UNCHANGED <<files, clients, blobs, issued, adminSecret>>

\* the steps of the db functions, shared by SpecDb and Spec
DbStep(p) ==
    \E io \in IOOutcomes :
        \/ SaveFileRecord(p, io)
        \/ UpdateGet(p, io)
        \/ UpdateMove(p, io)
        \/ UpdateSet(p, io)
        \/ DeleteGet(p, io)
        \/ DeleteDelete(p, io)

\* the directory the model starts from: persona a is an administrator,
\* persona b a named client, persona c has no record
InitClients ==
    [x \in {"a", "b"} |->
        IF x = "a" THEN ClientRecord("a", "Ada", "CA", 0, TRUE)
                   ELSE ClientRecord("b", "Bob", "CB", 0, FALSE)]

InitDb ==
    /\ files = [q \in Partitions |-> EmptyMap]
    /\ clients = InitClients
    /\ blobs = {}
    /\ issued = 0
    /\ pc = [p \in Procs |-> "idle"]
    /\ req = [p \in Procs |-> NoRequest]
    /\ loc = [p \in Procs |-> NoLocals]
    /\ resp = NoResult
    /\ adminSecret = "s"
    /\ calls = MaxCalls

NextDb ==
    \E p \in Procs :
        \/ CallSaveFileRecord(p)
        \/ CallUpdateFileRecord(p)
        \/ CallDeleteFileRecord(p)
        \/ DbStep(p)

SpecDb == InitDb /\ [][NextDb]_vars


(***************************************************************************)
(* The persona directory (db.go): GetClient and the functions over it.     *)
(***************************************************************************)
\* the records GetClient may return; the empty set is an error
GetClient(cl, id, io) ==
    IF io = "ok" /\ id \in DOMAIN cl THEN {cl[id]} ELSE {}

\* the owner name GetFileRecord and ListFiles attach to a record
OwnerName(cl, ownerID, io) ==
    IF ownerID = "" THEN "Admin"
    ELSE IF GetClient(cl, ownerID, io) = {} THEN "Unknown"
    ELSE cl[ownerID].Name

\* db.UpdateClientFull: GetClient, then Set of the edited record
UpdateClientFullGet(p, io) ==
    LET found == GetClient(clients, req[p].id, io) IN
    /\ pc[p] = "clientfull_get"
    /\ IF found = {}
       THEN Return(p, TRUE)
       ELSE \E client \in found :
              /\ loc' = [loc EXCEPT ![p] = ClientLocals(
                           [client EXCEPT !.Name = req[p].name,
                                          !.RecoveryCode = req[p].code,
                                          !.IsAdmin = req[p].isAdmin])]
              /\ Goto(p, "clientfull_set")
              /\ UNCHANGED <<req, resp, calls>>
    /\ UNCHANGED <<files, clients, blobs, issued, adminSecret>>

UpdateClientFullSet(p, io) ==
    /\ pc[p] = "clientfull_set"
    /\ IF io = "ok"
       THEN clients' = MapSet(clients, req[p].id, loc[p].client)
       ELSE clients' = clients
    /\ Return(p, io # "ok")
    /\ UNCHANGED <<files, blobs, issued, adminSecret>>

\* a faulty DeleteClient that also empties the partition of the persona
DeleteClientCascade(p, io) ==
    LET done == io = "ok" /\ req[p].id \in DOMAIN clients IN
    /\ pc[p] = "client_delete"
    /\ IF done
       THEN /\ clients' = MapDel(clients, req[p].id)
            /\ files' = [files EXCEPT ![req[p].id] = EmptyMap]
       ELSE /\ clients' = clients
            /\ files' = files
    /\ Return(p, ~done)
    /\ UNCHANGED <<blobs, issued, adminSecret>>

\* db.DeleteClient: one Delete in the system partition
DeleteClient(p, io) ==
    LET done == io = "ok" /\ req[p].id \in DOMAIN clients IN
    /\ pc[p] = "client_delete"
    /\ IF done
       THEN clients' = MapDel(clients, req[p].id)
       ELSE clients' = clients
    /\ Return(p, ~done)
    /\ UNCHANGED <<files, blobs, issued, adminSecret>>

(***************************************************************************)
(* The handlers (internal/api).  A handler is taken up by an idle request  *)
(* goroutine together with its first store call.                           *)
(***************************************************************************)
\* a faulty isAdmin that answers whether the caller's record exists and
\* forgets its IsAdmin flag (return err == nil)
isAdminIgnoringFlag(cl, caller, io) ==
    IF caller = "" THEN FALSE
    ELSE GetClient(cl, caller, io) # {}

\* Handler.isAdmin for the X-Client-ID caller
isAdmin(cl, caller, io) ==
    IF caller = "" THEN FALSE
    ELSE IF GetClient(cl, caller, io) = {} THEN FALSE
    ELSE cl[caller].IsAdmin

ClientNames == {"Ann"}

\* the file ids of the requests: those handed out and one that is unknown
RequestIds == {id \in FileIds : id <= issued + 1}
Codes == {"CA", "CB"}

\* POST /upload: StoreFile, then SaveFileRecord
UploadFile(p) ==
    /\ Free(p)
    /\ \E caller \in Owners \cup {""}, name \in Names, fs \in IOOutcomes :
         IF caller = ""
         THEN Answer(p, Status("UploadFile", caller, 400)) /\ UNCHANGED <<blobs, issued>>
         ELSE IF fs # "ok"
         THEN Answer(p, Status("UploadFile", caller, 500)) /\ UNCHANGED <<blobs, issued>>
         ELSE /\ issued < MaxFiles
              /\ issued' = issued + 1
              /\ blobs' = blobs \cup {issued + 1}
              /\ Begin(p, Request("UploadFile", caller, issued + 1, name, caller),
                       Locals(FileRecord(issued + 1, name, issued + 1, caller), "", FALSE),
                       "save_set")
    /\ UNCHANGED <<files, clients, adminSecret>>

\* GET /files: isAdmin, then db.ListFiles with the default page
HandlerListFiles(p) ==
    /\ Free(p)
    /\ \E caller \in Callers, io \in IOOutcomes :
         LET admin == isAdmin(clients, caller, io)
             opts == ListFilesOptions(<<>>, IF admin THEN "" ELSE caller,
                                      DefaultLimit, 0)
         IN IF ~admin /\ caller = ""
            THEN Answer(p, Status("ListFiles", caller, 400))
            ELSE \E io2 \in IOOutcomes, lost \in SUBSET (1..issued) :
                 \E r \in ListFiles(files, opts, io2, lost) :
                   Answer(p, IF r.err \/ r.panic
                             THEN Status("ListFiles", caller, 500)
                             ELSE [Status("ListFiles", caller, 200) EXCEPT
                                      !.files = r.Files, !.total = r.Total])
    /\ UNCHANGED <<files, clients, blobs, issued, adminSecret>>

\* GET /files/:id
GetFileMetadata(p) ==
    /\ Free(p)
    /\ \E caller \in Callers, id \in RequestIds, io \in IOOutcomes :
         LET found == GetFileRecord(files, id, io) IN
         IF found = {}
         THEN Answer(p, Status("GetFileMetadata", caller, 404))
         ELSE \E record \in found :
                Answer(p, [Status("GetFileMetadata", caller, 200) EXCEPT !.rec = record])
    /\ UNCHANGED <<files, clients, blobs, issued, adminSecret>>

\* PUT /files/:id: isAdmin, the JSON binding, then db.UpdateFileRecord
UpdateFile(p) ==
    /\ Free(p)
    /\ \E caller \in Callers, io \in IOOutcomes :
         IF ~isAdmin(clients, caller, io)
         THEN Answer(p, Status("UpdateFile", caller, 403))
         ELSE \E id \in RequestIds, name \in Names, owner \in Owners \cup {""} :
                IF owner = ""
                THEN Answer(p, Status("UpdateFile", caller, 400))
                ELSE Begin(p, Request("UpdateFile", caller, id, name, owner),
                           NoLocals, "update_get")
    /\ UNCHANGED <<files, clients, blobs, issued, adminSecret>>

\* DELETE /files/:id: GetFileRecord, the permission check, storage.DeleteFile,
\* then db.DeleteFileRecord
DeleteFile(p) ==
    /\ Free(p)
    /\ \E caller \in Callers, id \in RequestIds, io \in IOOutcomes :
         LET found == GetFileRecord(files, id, io) IN
         IF found = {}
         THEN Answer(p, Status("DeleteFile", caller, 404))
         ELSE \E record \in found :
                Begin(p, Request("DeleteFile", caller, id, NoName, ""),
                      Locals(record, "", FALSE), "delete_perm")
    /\ UNCHANGED <<files, clients, blobs, issued, adminSecret>>

\* a faulty permission check whose ownership comparison is inverted
\* (!h.isAdmin(c) && record.OwnerID == ownerID)
DeleteFilePermissionInverted(p, io) ==
    LET admin == isAdmin(clients, req[p].caller, io) IN
    /\ pc[p] = "delete_perm"
    /\ IF ~admin /\ loc[p].rec.OwnerID = req[p].caller
       THEN Reply(p, Status("DeleteFile", req[p].caller, 403))
       ELSE /\ loc' = [loc EXCEPT ![p].adm = admin]
            /\ Goto(p, "delete_blob")
            /\ UNCHANGED <<req, resp, calls>>
    /\ UNCHANGED <<files, clients, blobs, issued, adminSecret>>

DeleteFilePermission(p, io) ==
    LET admin == isAdmin(clients, req[p].caller, io) IN
    /\ pc[p] = "delete_perm"
    /\ IF ~admin /\ loc[p].rec.OwnerID # req[p].caller
       THEN Reply(p, Status("DeleteFile", req[p].caller, 403))
       ELSE /\ loc' = [loc EXCEPT ![p].adm = admin]
            /\ Goto(p, "delete_blob")
            /\ UNCHANGED <<req, resp, calls>>
    /\ UNCHANGED <<files, clients, blobs, issued, adminSecret>>

\* a faulty handler step that answers 500 when storage.DeleteFile fails
DeleteFileBlobBlocking(p, fs) ==
    /\ pc[p] = "delete_blob"
    /\ blobs' = IF fs = "ok" THEN blobs \ {loc[p].rec.StoredPath} ELSE blobs
    /\ IF fs = "ok"
       THEN Goto(p, "delete_get") /\ UNCHANGED <<req, loc, resp, calls>>
       ELSE Reply(p, Status("DeleteFile", req[p].caller, 500))
    /\ UNCHANGED <<files, clients, issued, adminSecret>>

\* storage.DeleteFile: its error is logged and the handler goes on
DeleteFileBlob(p, fs) ==
    /\ pc[p] = "delete_blob"
    /\ blobs' = IF fs = "ok" THEN blobs \ {loc[p].rec.StoredPath} ELSE blobs
    /\ Goto(p, "delete_get")
    /\ UNCHANGED <<files, clients, issued, adminSecret, req, loc, resp, calls>>

\* GET /clients
ListClients(p) ==
    /\ Free(p)
    /\ \E caller \in Callers, io \in IOOutcomes, io2 \in IOOutcomes :
         IF ~isAdmin(clients, caller, io)
         THEN Answer(p, Status("ListClients", caller, 403))
         ELSE Answer(p, Status("ListClients", caller, IF io2 = "ok" THEN 200 ELSE 500))
    /\ UNCHANGED <<files, clients, blobs, issued, adminSecret>>

\* a faulty UpdateClient without the self-protection check
UpdateClientUnprotected(p) ==
    /\ Free(p)
    /\ \E caller \in Callers, io \in IOOutcomes :
         IF ~isAdmin(clients, caller, io)
         THEN Answer(p, Status("UpdateClient", caller, 403))
         ELSE \E id \in PersonaIds, name \in ClientNames, code \in Codes,
                 flag \in BOOLEAN :
                Begin(p, ClientRequest("UpdateClient", caller, id, name, code, flag),
                      NoLocals, "clientfull_get")
    /\ UNCHANGED <<files, clients, blobs, issued, adminSecret>>

\* PUT /clients/:id: isAdmin, the self-protection check, then
\* db.UpdateClientFull
UpdateClient(p) ==
    /\ Free(p)
    /\ \E caller \in Callers, io \in IOOutcomes :
         IF ~isAdmin(clients, caller, io)
         THEN Answer(p, Status("UpdateClient", caller, 403))
         ELSE \E id \in PersonaIds, name \in ClientNames, code \in Codes,
                 flag \in BOOLEAN :
                IF id = caller /\ ~flag
                THEN Answer(p, Status("UpdateClient", caller, 400))
                ELSE Begin(p, ClientRequest("UpdateClient", caller, id, name, code, flag),
                           NoLocals, "clientfull_get")
    /\ UNCHANGED <<files, clients, blobs, issued, adminSecret>>

\* DELETE /clients/:id: isAdmin, the "admin" check, then db.DeleteClient
HandlerDeleteClient(p) ==
    /\ Free(p)
    /\ \E caller \in Callers, io \in IOOutcomes :
         IF ~isAdmin(clients, caller, io)
         THEN Answer(p, Status("DeleteClient", caller, 403))
         ELSE \E id \in PersonaIds \cup {"admin"} :
                IF id = "admin"
                THEN Answer(p, Status("DeleteClient", caller, 400))
                ELSE Begin(p, ClientRequest("DeleteClient", caller, id, "", "", FALSE),
                           NoLocals, "client_delete")
    /\ UNCHANGED <<files, clients, blobs, issued, adminSecret>>

HandlerStep(p) ==
    \E io \in IOOutcomes :
        \/ DeleteFilePermission(p, io)
        \/ DeleteFileBlob(p, io)
        \/ UpdateClientFullGet(p, io)
        \/ UpdateClientFullSet(p, io)
        \/ DeleteClient(p, io)

Init ==
    /\ files = [q \in Partitions |-> EmptyMap]
    /\ clients = InitClients
    /\ blobs = {}
    /\ issued = 0
    /\ pc = [p \in Procs |-> "idle"]
    /\ req = [p \in Procs |-> NoRequest]
    /\ loc = [p \in Procs |-> NoLocals]
    /\ resp = NoResult
    /\ adminSecret = "s"
    /\ calls = MaxRequests

Next ==
    \E p \in Procs :
        \/ UploadFile(p)
        \/ HandlerListFiles(p)
        \/ GetFileMetadata(p)
        \/ UpdateFile(p)
        \/ DeleteFile(p)
        \/ ListClients(p)
        \/ UpdateClient(p)
        \/ HandlerDeleteClient(p)
        \/ HandlerStep(p)
        \/ DbStep(p)

Spec == Init /\ [][Next]_vars

(***************************************************************************)
(* Persona identity: the derived id, the recovery codes and the /persona   *)
(* handlers (GetPersona, ActivateAdmin, RecoverPersona, UpdateClientName). *)
(***************************************************************************)
\* Handler.CelerixNamespace, the configured namespace
CelerixNamespace == "ns"

\* time.Now().Unix() of a request (the directory starts with LastActive 0)
Now == 1

\* the codes strings.ToUpper(uuid.New().String()[:8]) may produce
GenCodes == {"CA", "CB", "CC"}

\* the secrets a caller may supply, besides none
Secrets == {"s", "x"}

\* uuid.NewSHA1(namespace, code): a name-based hash of namespace and code,
\* one id for each pair
DeriveId(namespace, code) ==
    CASE <<namespace, code>> = <<"ns", "CA">> -> "a"
      [] <<namespace, code>> = <<"ns", "CB">> -> "b"
      [] <<namespace, code>> = <<"ns", "CC">> -> "c"
      [] OTHER -> "z"

\* the answer to the /persona request r
PersonaStatus(r, status, body) ==
    [Status(r.kind, r.caller, status) EXCEPT !.arg = r, !.body = body]

\* seen: the record the handler read; client: the record the db function
\* read and edited
TouchLocals(seen, client) == [seen |-> seen, client |-> client]

PersonaOf(client) == IF client.IsAdmin THEN "admin" ELSE "client"

\* db.GetClientByRecoveryCode: the records it may return (the first one in
\* map order with the code, skipping the keys whose getRecord fails); the
\* empty set is an error
GetClientByRecoveryCode(cl, code, io, lost) ==
    IF io # "ok" THEN {}
    ELSE {cl[k] : k \in {x \in DOMAIN cl \ lost : cl[x].RecoveryCode = code}}

\* GET /persona: GetClient, then the best-effort UpdateClientLastActive
GetPersona(p) ==
    /\ Free(p)
    /\ \E caller \in Callers, io \in IOOutcomes :
         LET r == PersonaRequest("GetPersona", caller, caller, "", "", "")
             found == IF caller = "" THEN {} ELSE GetClient(clients, caller, io)
         IN IF found = {}
            THEN Answer(p, PersonaStatus(r, 200, Persona("client", "", "", "")))
            ELSE \E client \in found :
                   Begin(p, r, TouchLocals(client, client), "touch_get")
    /\ UNCHANGED <<files, clients, blobs, issued, adminSecret>>

\* what GetPersona answers: the persona, name and code it read first
PersonaReply(p) ==
    Reply(p, PersonaStatus(req[p], 200,
                           Persona(PersonaOf(loc[p].seen), "", loc[p].seen.Name,
                                   loc[p].seen.RecoveryCode)))

\* db.UpdateClientLastActive: GetClient, then Set; GetPersona drops its error
TouchGet(p, io) ==
    LET found == GetClient(clients, req[p].caller, io) IN
    /\ pc[p] = "touch_get"
    /\ IF found = {}
       THEN PersonaReply(p)
       ELSE \E client \in found :
              /\ loc' = [loc EXCEPT ![p] =
                           TouchLocals(loc[p].seen, [client EXCEPT !.LastActive = Now])]
              /\ Goto(p, "touch_set")
              /\ UNCHANGED <<req, resp, calls>>
    /\ UNCHANGED <<files, clients, blobs, issued, adminSecret>>

TouchSet(p, io) ==
    /\ pc[p] = "touch_set"
    /\ IF io = "ok"
       THEN clients' = MapSet(clients, req[p].caller, loc[p].client)
       ELSE clients' = clients
    /\ PersonaReply(p)
    /\ UNCHANGED <<files, blobs, issued, adminSecret>>

\* a faulty ActivateAdmin that asks only whether a secret is configured and
\* forgets to compare the supplied one with it
ActivateAdminAnySecret(p) ==
    /\ Free(p)
    /\ \E caller \in Callers, secret \in Secrets \cup {""}, io \in IOOutcomes :
         LET r == PersonaRequest("ActivateAdmin", caller, caller, "", "", secret)
             found == GetClient(clients, caller, io)
         IN IF caller = "" \/ secret = ""
            THEN Answer(p, PersonaStatus(r, 400, NoPersona))
            ELSE IF adminSecret = ""
            THEN Answer(p, PersonaStatus(r, 403, NoPersona))
            ELSE IF found = {}
            THEN Answer(p, PersonaStatus(r, 500, NoPersona))
            ELSE \E client \in found :
                   Begin(p, r, ClientLocals([client EXCEPT !.IsAdmin = TRUE]),
                         "adminstatus_set")
    /\ UNCHANGED <<files, clients, blobs, issued, adminSecret>>

\* POST /persona/admin: the header, the binding, the secret check, then
\* db.UpdateClientAdminStatus (GetClient, then Set)
ActivateAdmin(p) ==
    /\ Free(p)
    /\ \E caller \in Callers, secret \in Secrets \cup {""}, io \in IOOutcomes :
         LET r == PersonaRequest("ActivateAdmin", caller, caller, "", "", secret)
             found == GetClient(clients, caller, io)
         IN IF caller = "" \/ secret = ""
            THEN Answer(p, PersonaStatus(r, 400, NoPersona))
            ELSE IF adminSecret = "" \/ secret # adminSecret
            THEN Answer(p, PersonaStatus(r, 403, NoPersona))
            ELSE IF found = {}
            THEN Answer(p, PersonaStatus(r, 500, NoPersona))
            ELSE \E client \in found :
                   Begin(p, r, ClientLocals([client EXCEPT !.IsAdmin = TRUE]),
                         "adminstatus_set")
    /\ UNCHANGED <<files, clients, blobs, issued, adminSecret>>

UpdateClientAdminStatusSet(p, io) ==
    /\ pc[p] = "adminstatus_set"
    /\ IF io = "ok"
       THEN clients' = MapSet(clients, req[p].caller, loc[p].client)
       ELSE clients' = clients
    /\ Reply(p, PersonaStatus(req[p], IF io = "ok" THEN 200 ELSE 500, NoPersona))
    /\ UNCHANGED <<files, blobs, issued, adminSecret>>

\* POST /persona/recover: db.GetClientByRecoveryCode, then the derived id
RecoverPersona(p) ==
    /\ Free(p)
    /\ \E code \in GenCodes \cup {""}, io \in IOOutcomes, lost \in SUBSET DOMAIN clients :
         LET r == PersonaRequest("RecoverPersona", "", "", "", code, "")
             found == GetClientByRecoveryCode(clients, code, io, lost)
         IN IF code = ""
            THEN Answer(p, PersonaStatus(r, 400, NoPersona))
            ELSE IF found = {}
            THEN Answer(p, PersonaStatus(r, 404, NoPersona))
            ELSE \E client \in found :
                   Answer(p, PersonaStatus(r, 200,
                             Persona(PersonaOf(client),
                                     DeriveId(CelerixNamespace, client.RecoveryCode),
                                     client.Name, "")))
    /\ UNCHANGED <<files, clients, blobs, issued, adminSecret>>

\* POST /persona/name: GetClient for the caller's code or a new code, the
\* derived id, then db.UpsertClient
UpdateClientName(p) ==
    /\ Free(p)
    /\ \E caller \in Callers, name \in ClientNames \cup {""}, io \in IOOutcomes :
         LET found == GetClient(clients, caller, io)
             codes == IF found # {} /\ clients[caller].RecoveryCode # ""
                      THEN {clients[caller].RecoveryCode}
                      ELSE GenCodes
         IN IF caller = "" \/ name = ""
            THEN Answer(p, PersonaStatus(
                     PersonaRequest("UpdateClientName", caller, "", name, "", ""),
                     400, NoPersona))
            ELSE \E recoveryCode \in codes :
                   Begin(p, PersonaRequest("UpdateClientName", caller,
                                           DeriveId(CelerixNamespace, recoveryCode),
                                           name, recoveryCode, ""),
                         NoLocals, "upsert_get")
    /\ UNCHANGED <<files, clients, blobs, issued, adminSecret>>

\* db.UpsertClient: GetClient (any error means a new client), then Set
UpsertGet(p, io) ==
    LET id == req[p].id
        found == GetClient(clients, id, io)
    IN
    /\ pc[p] = "upsert_get"
    /\ loc' = [loc EXCEPT ![p] = ClientLocals(
                 IF found = {}
                 THEN ClientRecord(id, req[p].name, req[p].code, Now, FALSE)
                 ELSE [clients[id] EXCEPT !.Name = req[p].name,
                                          !.RecoveryCode = req[p].code,
                                          !.LastActive = Now])]
    /\ Goto(p, "upsert_set")
    /\ UNCHANGED <<files, clients, blobs, issued, adminSecret, req, resp, calls>>

UpsertSet(p, io) ==
    /\ pc[p] = "upsert_set"
    /\ IF io = "ok"
       THEN clients' = MapSet(clients, req[p].id, loc[p].client)
       ELSE clients' = clients
    /\ Reply(p, IF io = "ok"
                THEN PersonaStatus(req[p], 200,
                                   Persona("", req[p].id, "", req[p].code))
                ELSE PersonaStatus(req[p], 500, NoPersona))
    /\ UNCHANGED <<files, blobs, issued, adminSecret>>

PersonaStep(p) ==
    \E io \in IOOutcomes :
        \/ TouchGet(p, io)
        \/ TouchSet(p, io)
        \/ UpdateClientAdminStatusSet(p, io)
        \/ UpsertGet(p, io)
        \/ UpsertSet(p, io)
        \/ UpdateClientFullGet(p, io)
        \/ UpdateClientFullSet(p, io)
        \/ DeleteClient(p, io)

\* the directory as in Init, with or without a configured secret
InitPersona ==
    /\ files = [q \in Partitions |-> EmptyMap]
    /\ clients = InitClients
    /\ blobs = {}
    /\ issued = 0
    /\ pc = [p \in Procs |-> "idle"]
    /\ req = [p \in Procs |-> NoRequest]
    /\ loc = [p \in Procs |-> NoLocals]
    /\ resp = NoResult
    /\ calls = MaxRequests
    /\ adminSecret \in {"", "s"}

NextPersona ==
    \E p \in Procs :
        \/ GetPersona(p)
        \/ ActivateAdmin(p)
        \/ RecoverPersona(p)
        \/ UpdateClientName(p)
        \/ UpdateClient(p)
        \/ HandlerDeleteClient(p)
        \/ PersonaStep(p)

SpecPersona == InitPersona /\ [][NextPersona]_vars

(***************************************************************************)
(* SpecList: db.ListFiles called on a registry in which every record sits  *)
(* in its owner's partition, with any options.                             *)
(***************************************************************************)
ListNames == {<<"R", "p">>, <<"i", "n">>}
ListSearches == {<<>>, <<"r", "P">>, <<"N">>}
ListTimes == {1, 2}
ListOwners == {"a", "b"}
ListLimits == {MinInt, 0, 1, 2, MaxInt}
ListOffsets == {0, 1, 2, MaxListed + 1, MaxInt}

\* the registries holding the file ids 1..k, k <= MaxListed
ListRegistries ==
    UNION {
      {[q \in Partitions |->
          [id \in {x \in 1..k : f[x].OwnerID = q} |-> f[id]]] :
         f \in [1..k -> {FileRecord(0, n, t, o) :
                           n \in ListNames, t \in ListTimes, o \in ListOwners}]} :
      k \in 0..MaxListed}

WithIds(st) ==
    [q \in Partitions |-> [id \in DOMAIN st[q] |->
        [st[q][id] EXCEPT !.ID = id, !.StoredPath = id]]]

InitList ==
    /\ files \in {WithIds(st) : st \in ListRegistries}
    /\ clients = InitClients
    /\ blobs = UNION {DOMAIN files[q] : q \in Partitions}
    /\ issued = Cardinality(blobs)
    /\ pc = [p \in Procs |-> "idle"]
    /\ req = [p \in Procs |-> NoRequest]
    /\ loc = [p \in Procs |-> NoLocals]
    /\ resp = NoResult
    /\ adminSecret = "s"
    /\ calls = 1

\* one call of db.ListFiles: its options are kept in req, its result in resp
CallListFiles(p) ==
    /\ pc[p] = "idle"
    /\ calls = 1
    /\ calls' = 0
    /\ \E search \in ListSearches, ownerID \in ListOwners \cup {""},
          limit \in ListLimits, offset \in ListOffsets :
         LET opts == ListFilesOptions(search, ownerID, limit, offset) IN
         \E r \in ListFiles(files, opts, "ok", {}) :
            /\ req' = [req EXCEPT ![p] = opts]
            /\ resp' = [Result("db.ListFiles", r.err, 0) EXCEPT
                              !.files = r.Files, !.total = r.Total,
                              !.panic = r.panic]
    /\ UNCHANGED <<files, clients, blobs, issued, adminSecret, pc, loc>>

NextList == CallListFiles(1)

SpecList == InitList /\ [][NextList]_vars

(***************************************************************************)
(* SpecListIO: db.ListFiles called on the same registries while store      *)
(* calls may fail: the GetAppStore or DumpApp call, and the getRecord of   *)
(* any key it ranges over.                                                 *)
(***************************************************************************)
\* failed: some store call of the ListFiles call returned an error
ListLocals(failed) == [failed |-> failed]

\* the ids of the keys ListFiles ranges over when its first store call succeeds
KeysRead(st, opts) ==
    {e.rec.ID : e \in AllRecords(st, opts, "ok", {})}

\* one call of db.ListFiles for all records of its scope (no page limit)
CallListFilesIO(p) ==
    /\ pc[p] = "idle"
    /\ calls = 1
    /\ calls' = 0
    /\ \E search \in ListSearches, ownerID \in ListOwners \cup {""},
          io \in IOOutcomes :
         LET opts == ListFilesOptions(search, ownerID, 0, 0) IN
         \E lost \in SUBSET (IF io = "ok" THEN KeysRead(files, opts) ELSE {}) :
         \E r \in ListFiles(files, opts, io, lost) :
            /\ req' = [req EXCEPT ![p] = opts]
            /\ loc' = [loc EXCEPT ![p] = ListLocals(io # "ok" \/ lost # {})]
            /\ resp' = [Result("db.ListFiles", r.err, 0) EXCEPT
                              !.files = r.Files, !.total = r.Total,
                              !.panic = r.panic]
    /\ UNCHANGED <<files, clients, blobs, issued, adminSecret, pc>>

NextListIO == CallListFilesIO(1)

SpecListIO == InitList /\ [][NextListIO]_vars

(***************************************************************************)
(* Claims.                                                                 *)
(***************************************************************************)
Min(x, y) == IF x <= y THEN x ELSE y

AllEntries == UNION {Entries(files, q) : q \in Partitions}

\* the persona record of caller exists and has IsAdmin = true
IsAdministrator(caller) ==
    caller \in DOMAIN clients /\ clients[caller].IsAdmin

\* the ids of the records ListFiles returns for owner (all of them, no search)
Listed(st, owner) ==
    UNION {{r.Files[i].ID : i \in 1..Len(r.Files)} :
             r \in ListFiles(st, ListFilesOptions(<<>>, owner, 0, 0), "ok", {})}

\* C1: in every reachable state, the states between the steps of one
\* UpdateFileRecord included, every stored file record lies in the partition
\* equal to its OwnerID, or in "_system" when its OwnerID is empty.
C1_PartitionEqualsOwner ==
    \A q \in Partitions : \A id \in DOMAIN files[q] :
        Bound(files[q][id].OwnerID) = q

\* C2: in every reachable state, for every file id at most one partition
\* holds the key "file:"+id.
C2_OnePartitionPerKey ==
    \A id \in FileIds : Cardinality(GetGlobal(files, id)) <= 1

\* C3: when UpdateFileRecord(id, name, newOwner) returns without error and
\* newOwner differs from the owner it read, GetGlobal resolves the key to
\* newOwner's partition only, the old partition no longer holds the key, the
\* stored record carries the new name and the new OwnerID, ListFiles with
\* OwnerID = newOwner includes the file and ListFiles with OwnerID = the old
\* owner (a persona) does not.
C3_OwnershipMove ==
    [][\A p \in Procs :
         pc[p] = "update_set" /\ pc'[p] = "idle" /\ ~resp'.err
           /\ loc[p].persona # Bound(req[p].owner) =>
             LET id == req[p].id
                 old == loc[p].persona
                 new == Bound(req[p].owner)
             IN /\ GetGlobal(files', id) = {new}
                /\ ~StoreHas(files', old, id)
                /\ files'[new][id].OriginalName = req[p].name
                /\ files'[new][id].OwnerID = req[p].owner
                /\ id \in Listed(files', req[p].owner)
                /\ old # SystemPersona => id \notin Listed(files', old)
      ]_vars

\* C4: in every reachable state and for every persona id A, ListFiles with
\* OwnerID = A returns no record whose OwnerID differs from A; and every
\* listing the ListFiles handler gives to a caller that is not an administrator
\* holds only records whose OwnerID is the caller's X-Client-ID.
C4_VisibilityScoping ==
    [][/\ \A A \in PersonaIds :
            \A r \in ListFiles(files', ListFilesOptions(<<>>, A, 0, 0), "ok", {}) :
               \A i \in 1..Len(r.Files) : r.Files[i].OwnerID = A
       /\ calls' < calls /\ pc' = pc /\ resp'.kind = "ListFiles"
            /\ resp'.status = 200 /\ ~IsAdministrator(resp'.caller) =>
              \A i \in 1..Len(resp'.files) : resp'.files[i].OwnerID = resp'.caller
      ]_vars

\* C5: every successful GetFileMetadata response for a record is given to a
\* caller whose persona id equals the record's OwnerID or whose persona record
\* has IsAdmin = true.
C5_MetadataOnlyToOwnerOrAdmin ==
    [][calls' < calls /\ pc' = pc /\ resp'.kind = "GetFileMetadata"
         /\ resp'.status = 200 =>
           \/ resp'.caller = resp'.rec.OwnerID
           \/ IsAdministrator(resp'.caller)
      ]_vars

\* GetFileRecord(id) returns an error and no ListFiles call, scoped to any
\* owner or over all partitions, returns a record with that id
Absent(st, id) ==
    /\ GetFileRecord(st, id, "ok") = {}
    /\ \A owner \in PersonaIds \cup {""} : id \notin Listed(st, owner)

\* C6: when DeleteFileRecord(id) returns without error the id is absent
\* (GetFileRecord fails, no ListFiles returns it), and an absent id stays
\* absent until a record with that id is created again by SaveFileRecord.
C6_DeletionCleanup ==
    [][/\ \A p \in Procs :
            pc[p] = "delete_delete" /\ pc'[p] = "idle" /\ ~resp'.err =>
                Absent(files', req[p].id)
       /\ \A id \in FileIds :
            Absent(files, id) /\ ~Absent(files', id) =>
                \E p \in Procs : /\ pc[p] = "save_set" /\ pc'[p] = "idle"
                                 /\ loc[p].rec.ID = id
      ]_vars

\* C7: the DeleteFile handler answers Forbidden and leaves the registry and
\* the blobs unchanged for a caller that is neither an administrator nor the
\* OwnerID of the record it read; it goes on to release the blob and remove
\* the record only for a caller that is one of the two, and changes the
\* registry or the blobs only after that.
C7_DeleteOnlyByOwnerOrAdmin ==
    [][\A p \in Procs :
         /\ pc[p] = "delete_perm" /\ pc'[p] # pc[p]
               /\ ~IsAdministrator(req[p].caller)
               /\ loc[p].rec.OwnerID # req[p].caller =>
                 /\ pc'[p] = "idle"
                 /\ resp'.kind = "DeleteFile" /\ resp'.caller = req[p].caller
                 /\ resp'.status = 403
                 /\ files' = files /\ blobs' = blobs
         /\ pc'[p] = "delete_blob" /\ pc[p] # "delete_blob" =>
                 /\ pc[p] = "delete_perm"
                 /\ \/ IsAdministrator(req[p].caller)
                    \/ loc[p].rec.OwnerID = req[p].caller
         /\ req[p].kind = "DeleteFile" /\ pc'[p] # pc[p]
               /\ (files' # files \/ blobs' # blobs) =>
                 pc[p] \in {"delete_blob", "delete_delete"}
      ]_vars

\* a DeleteFile request of a caller that is neither administrator nor owner
\* was answered Forbidden while the record and its blob are stored
C7_ForbiddenDelete ==
    /\ resp.kind = "DeleteFile" /\ resp.status = 403
    /\ ~IsAdministrator(resp.caller)
    /\ \E q \in Partitions : \E id \in DOMAIN files[q] :
          files[q][id].OwnerID # resp.caller /\ files[q][id].StoredPath \in blobs

GatedHandlers == {"UpdateFile", "ListClients", "UpdateClient", "DeleteClient"}

\* C8: UpdateFile, ListClients, UpdateClient and DeleteClient, called by a
\* caller whose X-Client-ID is empty, names no persona record or names a record
\* with IsAdmin = false, answer Forbidden at once and leave every file record,
\* blob and persona record unchanged; only an administrator's request gets
\* past the gate.
C8_AdminGating ==
    [][calls' < calls =>
         IF pc' = pc
         THEN resp'.kind \in GatedHandlers /\ ~IsAdministrator(resp'.caller) =>
                /\ resp'.status = 403
                /\ files' = files /\ clients' = clients /\ blobs' = blobs
         ELSE \A p \in Procs :
                pc'[p] # pc[p] /\ req'[p].kind \in GatedHandlers =>
                    IsAdministrator(req'[p].caller)
      ]_vars

\* a client without the administrator flag was refused by UpdateFile while a
\* file record is stored
C8_ForbiddenUpdate ==
    /\ resp.kind = "UpdateFile" /\ resp.status = 403
    /\ resp.caller \in DOMAIN clients /\ ~clients[resp.caller].IsAdmin
    /\ \E q \in Partitions : DOMAIN files[q] # {}

\* C9: SaveFileRecord fails and leaves the registry unchanged when a record
\* with the same id exists in the global key index; otherwise, when it returns
\* without error, the record is in the partition equal to its OwnerID (the
\* system partition if empty).
C9_CreateFailsOnExistingId ==
    [][\A p \in Procs :
         pc[p] = "save_set" /\ pc'[p] = "idle" =>
           LET record == loc[p].rec
               persona == Bound(record.OwnerID)
           IN IF GetGlobal(files, record.ID) # {}
              THEN resp'.err /\ files' = files
              ELSE ~resp'.err => /\ StoreHas(files', persona, record.ID)
                                 /\ files'[persona][record.ID] = record
      ]_vars

\* the page the claim describes for options opts over the registry
ClaimedTotal(opts) ==
    Cardinality({e \in (IF opts.OwnerID = "" THEN AllEntries
                                              ELSE Entries(files, opts.OwnerID)) :
                   Matches(e.rec, opts.Search)})

ClaimedPages(opts) ==
    LET matching == {e \in (IF opts.OwnerID = "" THEN AllEntries
                                                 ELSE Entries(files, opts.OwnerID)) :
                       Matches(e.rec, opts.Search)}
        total == Cardinality(matching)
        start == Min(opts.Offset, total)
        end == IF opts.Limit <= 0 THEN total ELSE Min(opts.Offset + opts.Limit, total)
    IN {SubSeq(sorted, start + 1, end) : sorted \in SortedDesc(matching)}

\* C10: for every registry, Search, Offset >= 0 and Limit, ListFiles returns
\* without error Total = the number of in-scope records matching Search
\* case-insensitively, and Files = the slice [min(Offset, Total), end) of those
\* records in non-increasing UploadTime order, end = Total if Limit <= 0 and
\* min(Offset + Limit, Total) otherwise.
C10_ListFilesPage ==
    \A p \in Procs :
        resp.kind = "db.ListFiles" /\ req[p] # NoRequest /\ req[p].Offset >= 0 =>
            /\ ~resp.err
            /\ ~resp.panic
            /\ resp.total = ClaimedTotal(req[p])
            /\ resp.files \in ClaimedPages(req[p])

\* the same, for the calls in which Offset + Limit does not exceed the
\* largest int
C10_ListFilesPageNoOverflow ==
    \A p \in Procs :
        /\ resp.kind = "db.ListFiles"
        /\ req[p] # NoRequest
        /\ req[p].Offset >= 0
        /\ Min(req[p].Offset, ClaimedTotal(req[p])) + req[p].Limit <= MaxInt
        => /\ ~resp.err
           /\ ~resp.panic
           /\ resp.total = ClaimedTotal(req[p])
           /\ resp.files \in ClaimedPages(req[p])

(***************************************************************************)
(* Claims about the persona directory (SpecPersona).                       *)
(***************************************************************************)
\* goroutine p answers a request in the step in which it takes it up
Answers(kind) ==
    calls' < calls /\ pc' = pc /\ resp'.kind = kind

\* the last store call of goroutine p returns from label
Returns(p, label) ==
    pc[p] = label /\ pc'[p] = "idle"

\* C11: a name save that answers 200 with id I and code C for the name N has
\* stored N and C under I, and I is the id derived from the namespace and C;
\* a RecoverPersona(C) that answers 200 while the record saved under the id
\* derived from C still carries C returns that id and that record's name.
C11_RecoveryRoundTrip ==
    [][/\ \A p \in Procs :
            (Returns(p, "upsert_set") /\ resp'.status = 200) =>
                LET I == resp'.body.id
                    C == resp'.body.recovery_code
                IN /\ I = DeriveId(CelerixNamespace, C)
                   /\ I \in DOMAIN clients'
                   /\ clients'[I].Name = req[p].name
                   /\ clients'[I].RecoveryCode = C
       /\ (Answers("RecoverPersona") /\ resp'.status = 200) =>
             LET C == resp'.arg.code
                 I == DeriveId(CelerixNamespace, C)
             IN (I \in DOMAIN clients /\ clients[I].RecoveryCode = C) =>
                   /\ resp'.body.id = I
                   /\ resp'.body.name = clients[I].Name]_vars

\* no two records of cl carry the same non-empty recovery code
UniqueCodes(cl) ==
    \A x, y \in DOMAIN cl :
        (x # y /\ cl[x].RecoveryCode # "") => cl[x].RecoveryCode # cl[y].RecoveryCode

\* C12: no two persona records carry the same non-empty recovery code,
\* whatever name saves and administrator edits were made.
C12_UniqueRecoveryCodes == UniqueCodes(clients)

\* an ActivateAdmin request ends: answered at once, or after the Set of
\* db.UpdateClientAdminStatus
ActivateAdminEnds ==
    \/ Answers("ActivateAdmin")
    \/ \E p \in Procs : Returns(p, "adminstatus_set")

\* the supplied secret of r is the configured one, and one is configured
RightSecret(r) == adminSecret # "" /\ r.secret = adminSecret

C14_NoSelfDelete ==
    [][/\ \A p \in Procs :
            (pc[p] = "idle" /\ pc'[p] = "client_delete") =>
                req'[p].id \notin {req'[p].caller, SystemPersona}
       /\ Answers("DeleteClient") => clients' = clients]_vars

\* C15: an UpdateClient(id, ..., is_admin = false) request of an
\* administrator whose own id is id is rejected without a store call and
\* changes no record, and no step of an UpdateClient request turns the
\* IsAdmin of its own caller from true to false.
C15_NoSelfDemotion ==
    [][/\ Answers("UpdateClient") => clients' = clients
       /\ \A p \in Procs :
            /\ (pc[p] = "idle" /\ pc'[p] = "clientfull_get") =>
                  ~(req'[p].id = req'[p].caller /\ ~req'[p].isAdmin)
            /\ (pc[p] \in {"clientfull_get", "clientfull_set"} /\ pc'[p] # pc[p]) =>
                  LET c == req[p].caller IN
                  (c \in DOMAIN clients /\ clients[c].IsAdmin) =>
                      (c \in DOMAIN clients' /\ clients'[c].IsAdmin)]_vars

\* an administrator's UpdateClient on its own id was rejected
C15_SelfDemotionRejected ==
    /\ resp.kind = "UpdateClient"
    /\ resp.status = 400
    /\ IsAdministrator(resp.caller)

\* C16: the record UpsertClient prepares for an existing persona is the
\* stored one with only Name, RecoveryCode and LastActive changed (IsAdmin
\* kept); it has IsAdmin = false when no record existed; and its Set writes
\* that record under the persona's id in the system partition and nothing
\* else.
C16_UpsertPreservesIsAdmin ==
    [][\A p \in Procs :
         /\ (pc[p] = "upsert_get" /\ pc'[p] = "upsert_set") =>
               LET id == req[p].id
                   w == loc'[p].client
               IN IF id \in DOMAIN clients
                  THEN w = [clients[id] EXCEPT !.Name = req[p].name,
                                               !.RecoveryCode = req[p].code,
                                               !.LastActive = w.LastActive]
                  ELSE ~w.IsAdmin
         /\ Returns(p, "upsert_set") =>
               /\ files' = files
               /\ \/ clients' = clients
                  \/ clients' = MapSet(clients, req[p].id, loc[p].client)]_vars

\* C17: a persona's IsAdmin goes from true to false, the record staying,
\* only in the Set of an administrator's UpdateClient for that persona with
\* is_admin = false; name saves, last-active touches, recoveries and
\* repeated escalations never clear it.
C17_AdminFlagMonotone ==
    [][\A id \in DOMAIN clients :
         (clients[id].IsAdmin /\ id \in DOMAIN clients' /\ ~clients'[id].IsAdmin) =>
             \E p \in Procs :
                 /\ Returns(p, "clientfull_set")
                 /\ req[p].kind = "UpdateClient"
                 /\ req[p].id = id
                 /\ ~req[p].isAdmin]_vars

(***************************************************************************)
(* Claims about personas and their files (Spec).                           *)
(***************************************************************************)
\* C18: when DeleteClient(id) has succeeded, GetClient(id) fails, the
\* registry and the blobs are as before, and every file record owned by id
\* is returned by GetFileRecord, by the administrator's ListFiles and, when
\* it lies in id's partition, by the ListFiles of id, with the owner name
\* "Unknown".
C18_FilesOutliveOwner ==
    [][\A p \in Procs :
         (Returns(p, "client_delete") /\ resp'.status = 200) =>
             LET id == req[p].id IN
             /\ GetClient(clients', id, "ok") = {}
             /\ files' = files
             /\ blobs' = blobs
             /\ OwnerName(clients', id, "ok") = "Unknown"
             /\ \A q \in Partitions : \A fid \in DOMAIN files[q] :
                   files[q][fid].OwnerID = id =>
                       /\ files[q][fid] \in GetFileRecord(files', fid, "ok")
                       /\ fid \in Listed(files', "")
                       /\ (q = id => fid \in Listed(files', id))]_vars

\* a persona with stored files was deleted
C18_OwnerDeleted ==
    /\ resp.kind = "DeleteClient"
    /\ resp.status = 200
    /\ \E q \in Owners :
          /\ q \notin DOMAIN clients
          /\ DOMAIN files[q] # {}
          /\ \A fid \in DOMAIN files[q] : files[q][fid].OwnerID = q

\* the record occurs exactly once in every result ListFiles may return for
\* owner (all records, no search)
ListedOnce(st, owner, record) ==
    \A r \in ListFiles(st, ListFilesOptions(<<>>, owner, 0, 0), "ok", {}) :
        /\ ~r.err /\ ~r.panic
        /\ Cardinality({i \in 1..Len(r.Files) : r.Files[i].ID = record.ID}) = 1
        /\ \E i \in 1..Len(r.Files) : r.Files[i] = record

\* C19: when an upload by A has succeeded (SaveFileRecord with OwnerID = A
\* returned no error), the ListFiles of A and the administrator's ListFiles
\* each include the new record exactly once.
C19_UploadIsListed ==
    [][\A p \in Procs :
         (Returns(p, "save_set") /\ req[p].kind = "UploadFile" /\ resp'.status = 200) =>
             /\ loc[p].rec.OwnerID = req[p].caller
             /\ ListedOnce(files', req[p].caller, loc[p].rec)
             /\ ListedOnce(files', "", loc[p].rec)]_vars

\* an upload succeeded and its record is stored for its owner
C19_Uploaded ==
    /\ resp.kind = "UploadFile"
    /\ resp.status = 200
    /\ resp.caller \in Owners
    /\ \E fid \in DOMAIN files[resp.caller] :
          files[resp.caller][fid].OwnerID = resp.caller

(***************************************************************************)
(* Claims about store errors (SpecListIO).                                 *)
(***************************************************************************)
\* C20, for ListFiles (owner-scoped or administrator view): whenever a store
\* call made by the call failed, the call returns an error and not a
\* successful, possibly empty or partial, result.
C20_ListFilesSurfacesErrors ==
    resp.kind = "db.ListFiles" =>
        \A p \in Procs :
            ("failed" \in DOMAIN loc[p] /\ loc[p].failed) => resp.err

(***************************************************************************)
(* Claims about DeleteFile and the blob store (Spec).                      *)
(***************************************************************************)
\* C21: a failing blob release does not block the removal of the registry
\* record: after the permission check DeleteFile goes on to
\* db.DeleteFileRecord whatever storage.DeleteFile returned, without
\* touching the registry, and it answers 200 exactly when DeleteFileRecord
\* removed the record, also when the blob is still there.
C21_BlobFailureDoesNotBlock ==
    [][\A p \in Procs :
         /\ (pc[p] = "delete_blob" /\ pc'[p] # pc[p]) =>
               /\ pc'[p] = "delete_get"
               /\ files' = files
               /\ resp' = resp
               /\ blobs' \in {blobs, blobs \ {loc[p].rec.StoredPath}}
         /\ (Returns(p, "delete_delete") /\ req[p].kind = "DeleteFile") =>
               IF StoreHas(files, loc[p].persona, loc[p].rec.ID) /\ files' # files
               THEN /\ resp'.status = 200
                    /\ files' = StoreDelete(files, loc[p].persona, loc[p].rec.ID)
               ELSE /\ resp'.status = 500
                    /\ files' = files]_vars

\* the only file ever uploaded was deleted with 200 although its blob is
\* still in the blob store
C21_DeletedDespiteBlob ==
    /\ resp.kind = "DeleteFile"
    /\ resp.status = 200
    /\ issued = 1
    /\ 1 \in blobs
    /\ Absent(files, 1)

(***************************************************************************)
(* Claims about the steps of UpdateFileRecord and DeleteFileRecord         *)
(* (SpecDb).                                                               *)
(***************************************************************************)
\* how often the id occurs in the results ListFiles may return for owner
Occurrences(st, owner, id) ==
    {Cardinality({i \in 1..Len(r.Files) : r.Files[i].ID = id}) :
       r \in ListFiles(st, ListFilesOptions(<<>>, owner, 0, 0), "ok", {})}

\* goroutine p is between the Move and the Set of an UpdateFileRecord that
\* changes the partition
BetweenMoveAndSet(p) ==
    pc[p] = "update_set" /\ loc[p].persona # Bound(loc[p].rec.OwnerID)

\* C22: between the Move and the Set of an ownership-changing
\* UpdateFileRecord, the listing of exactly one of the old and the new owner
\* shows the file, and the administrator view shows it exactly once.
C22_ListedOnceBetweenMoveAndSet ==
    \A p \in Procs :
        BetweenMoveAndSet(p) =>
            LET id == loc[p].rec.ID
                old == loc[p].persona
                new == Bound(loc[p].rec.OwnerID)
            IN /\ Occurrences(files, "", id) = {1}
               /\ (old \in PersonaIds /\ new \in PersonaIds) =>
                     (id \in Listed(files, old)) # (id \in Listed(files, new))

\* C23: an UpdateFileRecord that changes the owner Moves before it Sets; when
\* the Move fails the registry is unchanged and the error is returned; it
\* returns no error only when Move and Set were both done; and when it
\* returns the error of its Set, the record does not lie in the new partition
\* with the old OwnerID.
C23_MoveThenSet ==
    [][\A p \in Procs :
         /\ (pc[p] = "update_move" /\ pc'[p] # pc[p]) =>
               IF files' = files
               THEN pc'[p] = "idle" /\ resp'.err
               ELSE /\ pc'[p] = "update_set"
                    /\ files' = StoreMove(files, loc[p].persona,
                                          Bound(loc[p].rec.OwnerID), loc[p].rec.ID)
         /\ (Returns(p, "update_set") /\ BetweenMoveAndSet(p)) =>
               LET id == loc[p].rec.ID
                   old == loc[p].persona
                   new == Bound(loc[p].rec.OwnerID)
               IN IF resp'.err
                  THEN ~(StoreHas(files', new, id)
                           /\ Bound(files'[new][id].OwnerID) = old)
                  ELSE files' = StoreSet(files, new, id, loc[p].rec)]_vars

\* C24: the partition from which DeleteFileRecord(id) deletes is one in which
\* GetGlobal locates the key when the record is read, also when the record
\* was moved and its OwnerID still names the old partition; and when it
\* returns no error the key was removed from that partition.
C24_DeleteWhereGlobalLocates ==
    [][\A p \in Procs :
         /\ (pc[p] = "delete_get" /\ pc'[p] = "delete_delete") =>
               loc'[p].persona \in GetGlobal(files, req[p].id)
         /\ (Returns(p, "delete_delete") /\ ~resp'.err) =>
               /\ StoreHas(files, loc[p].persona, loc[p].rec.ID)
               /\ files' = StoreDelete(files, loc[p].persona, loc[p].rec.ID)]_vars

\* C25: no step of an UpdateFileRecord call, whatever other calls run
\* beside it, takes a file whose key lies in exactly one partition to a state
\* in which the key lies in two partitions or in none.
C25_UpdatesKeepOnePartition ==
    [][\A p \in Procs :
         (pc[p] \in {"update_get", "update_move", "update_set"} /\ pc'[p] # pc[p]) =>
             \A id \in FileIds :
                 Cardinality(GetGlobal(files, id)) = 1 =>
                     Cardinality(GetGlobal(files', id)) = 1]_vars

\* C26: no step of an UpdateFileRecord call brings back a file whose key is
\* in no partition (one that a DeleteFileRecord removed after the update
\* read it): a key that is absent before the step is absent after it.
C26_UpdateDoesNotResurrect ==
    [][\A p \in Procs :
         (pc[p] \in {"update_get", "update_move", "update_set"} /\ pc'[p] # pc[p]) =>
             \A id \in FileIds :
                 GetGlobal(files, id) = {} => GetGlobal(files', id) = {}]_vars

(***************************************************************************)
(* Claims about concurrent persona operations and identity (SpecPersona).  *)
(***************************************************************************)
\* C27: the Set of a last-active touch (UpdateClientLastActive from
\* GetPersona) overwrites nothing another operation wrote since the touch
\* read the record: it leaves IsAdmin, Name and RecoveryCode of the persona
\* as they are, changes no other record, and does not re-create a persona
\* that was deleted meanwhile.
C27_TouchOverwritesNothing ==
    [][\A p \in Procs :
         Returns(p, "touch_set") =>
             LET c == req[p].caller IN
             /\ DOMAIN clients' = DOMAIN clients
             /\ \A x \in DOMAIN clients :
                   /\ clients'[x].IsAdmin = clients[x].IsAdmin
                   /\ clients'[x].Name = clients[x].Name
                   /\ clients'[x].RecoveryCode = clients[x].RecoveryCode
                   /\ x # c => clients'[x] = clients[x]]_vars

\* every record of cl is stored under the id derived from its recovery code
IdsDerived(cl) ==
    \A x \in DOMAIN cl : x = DeriveId(CelerixNamespace, cl[x].RecoveryCode)

\* C28: in every reachable state every persona record is stored under the id
\* derived from the namespace and its recovery code, and the id a successful
\* RecoverPersona(C) returns is the key of a stored record whose recovery
\* code is C.
C28_IdIsDerivedFromCode ==
    [][/\ IdsDerived(clients) /\ IdsDerived(clients')
       /\ (Answers("RecoverPersona") /\ resp'.status = 200) =>
             /\ resp'.body.id \in DOMAIN clients
             /\ clients[resp'.body.id].RecoveryCode = resp'.arg.code]_vars

\* the caller names a stored persona with a non-empty recovery code
Named(cl, caller) ==
    caller \in DOMAIN cl /\ cl[caller].RecoveryCode # ""

\* C29: a name save whose caller names a stored persona with a non-empty
\* recovery code is made with that code and that id; when it returns, no
\* record was added or removed, only Name and LastActive of the caller's
\* record may differ, and a 200 carries the caller's id and code.
C29_NameSaveKeepsIdentity ==
    [][\A p \in Procs :
         /\ (pc[p] = "idle" /\ pc'[p] = "upsert_get" /\ Named(clients, req'[p].caller)) =>
               /\ req'[p].code = clients[req'[p].caller].RecoveryCode
               /\ req'[p].id = req'[p].caller
         /\ (Returns(p, "upsert_set") /\ Named(clients, req[p].caller)) =>
               LET c == req[p].caller IN
               /\ DOMAIN clients' = DOMAIN clients
               /\ \A x \in DOMAIN clients :
                     IF x = c
                     THEN clients'[x] = [clients[x] EXCEPT
                                           !.Name = clients'[x].Name,
                                           !.LastActive = clients'[x].LastActive]
                     ELSE clients'[x] = clients[x]
               /\ resp'.status = 200 =>
                     /\ resp'.body.id = c
                     /\ resp'.body.recovery_code = clients[c].RecoveryCode]_vars

(***************************************************************************)
(* Claims about records and their blobs (Spec).                            *)
(***************************************************************************)
\* C30: in every reachable state the StoredPath of every file record in the
\* registry is a blob of the blob store.
C30_RecordsHaveBlobs ==
    \A q \in Partitions : \A id \in DOMAIN files[q] :
        files[q][id].StoredPath \in blobs

====
